---- MODULE Spec2Model ----
(***************************************************************************)
(* Location capture: the browser client (frontend/src/App.jsx) and the     *)
(* Express server (POST /api/submit-location).                             *)
(*                                                                         *)
(* Five specifications share the variables:                                *)
(*   ServerSpec  the route handler applied to arbitrary JSON bodies        *)
(*   ValidSpec   isValidCrateId applied to strings, null and undefined      *)
(*   HttpSpec    express.json() and the route handler applied to arbitrary *)
(*               requests (no body, malformed JSON, non-object JSON)       *)
(*   SendSpec    one sendLocation call against an arbitrary transport      *)
(*   Spec        the App component, its sendLocation calls, the network    *)
(*               and the server together                                   *)
(***************************************************************************)
EXTENDS Integers, Sequences, FiniteSets, TLC

VARIABLES
    req,            \* server: the parsed request body (ServerSpec)
    res,            \* server: the response written for req (ServerSpec)
    raw,            \* server: the request as it arrived, and how far it got (HttpSpec)
    calls,          \* the sendLocation invocations, in the order they were made
    crateId,        \* App: crateId.current
    hasGeolocation, \* "geolocation" in navigator
    status,         \* App: status state
    coords,         \* App: coords state
    error,          \* App: error state
    manualMode,     \* App: manualMode state
    page,           \* "rendered" (before the effect), "mounted", "hidden"
    geoPending,     \* getCurrentPosition was called and has not called back
    unload,         \* the pagehide listener: registered, and the coords it closed over
    beacons,        \* the payloads handed to navigator.sendBeacon
    wire,           \* the JSON bodies the client has POSTed by fetch
    serverLog,      \* the bodies the server accepted (its console.log), in order
    clock,          \* logical time of the captures (pos.timestamp, Date.now())
    probe           \* ValidSpec: the argument given to isValidCrateId and its result

serverVars == <<req, res, raw>>
appVars == <<crateId, hasGeolocation, status, coords, error, manualMode,
             page, geoPending, unload, beacons, clock>>
netVars == <<wire, serverLog>>
vars == <<req, res, raw, calls, crateId, hasGeolocation, status, coords, error,
          manualMode, page, geoPending, unload, beacons, wire, serverLog, clock, probe>>

(***************************************************************************)
(* JavaScript values.  kind "nan" is the number NaN; "obj" is an object    *)
(* or array that has none of the properties the code reads.                *)
(***************************************************************************)
JSUndefined == [kind |-> "undefined", num |-> 0, str |-> <<>>]
JSNull == [kind |-> "null", num |-> 0, str |-> <<>>]
JSNaN == [kind |-> "nan", num |-> 0, str |-> <<>>]
JSObj == [kind |-> "obj", num |-> 0, str |-> <<>>]
JSBool(b) == [kind |-> "bool", num |-> IF b THEN 1 ELSE 0, str |-> <<>>]
JSNum(n) == [kind |-> "num", num |-> n, str |-> <<>>]
JSStr(s) == [kind |-> "str", num |-> 0, str |-> s]

\* ToBoolean: what !v tests
Truthy(v) ==
    CASE v.kind = "undefined" -> FALSE
      [] v.kind = "null" -> FALSE
      [] v.kind = "nan" -> FALSE
      [] v.kind = "bool" -> v.num = 1
      [] v.kind = "num" -> v.num # 0
      [] v.kind = "str" -> Len(v.str) > 0
      [] v.kind = "obj" -> TRUE

\* the typeof operator
TypeOf(v) ==
    CASE v.kind = "undefined" -> "undefined"
      [] v.kind = "null" -> "object"
      [] v.kind = "nan" -> "number"
      [] v.kind = "bool" -> "boolean"
      [] v.kind = "num" -> "number"
      [] v.kind = "str" -> "string"
      [] v.kind = "obj" -> "object"

\* JSON.stringify followed by JSON.parse of a property value: NaN is written
\* as null, an undefined property is left out (and reads back undefined)
JsonValue(v) == IF v.kind = "nan" THEN JSNull ELSE v

(***************************************************************************)
(* A location: val is the value itself; when it is an object the other     *)
(* fields are its properties, otherwise they read undefined.  accuracy     *)
(* stands for the optional metadata (accuracy, altitude, heading, speed),  *)
(* which no code path reads.                                               *)
(***************************************************************************)
LocObject(lat, lng, acc, ts) ==
    [val |-> JSObj, latitude |-> lat, longitude |-> lng, accuracy |-> acc,
     timestamp |-> ts]
LocPrimitive(v) ==
    [val |-> v, latitude |-> JSUndefined, longitude |-> JSUndefined,
     accuracy |-> JSUndefined, timestamp |-> JSUndefined]
NoCoords == LocPrimitive(JSNull)

JsonLocation(l) ==
    [val |-> JsonValue(l.val), latitude |-> JsonValue(l.latitude),
     longitude |-> JsonValue(l.longitude), accuracy |-> JsonValue(l.accuracy),
     timestamp |-> JsonValue(l.timestamp)]

\* JSON.stringify(payload) as the server's express.json() reads it back
JsonBody(payload) ==
    [crate_int_id |-> JsonValue(payload.crate_int_id),
     location |-> JsonLocation(payload.location)]

(***************************************************************************)
(* Server: app.post("/api/submit-location")                                *)
(***************************************************************************)
\* res.status(st).json(...): a JSON body { ok: true } or { error: err }
Response(st, okField, err) ==
    [status |-> st, ok |-> okField, error |-> err, json |-> TRUE]
\* what Express's default error handler writes for an error passed to next()
\* or thrown by a handler (the app registers no error middleware): the
\* error's status and an HTML page
ErrorPage(st) == [status |-> st, ok |-> FALSE, error |-> "", json |-> FALSE]
NoResponse == Response(0, FALSE, "")

\* mutant: the location check is made before the identifier check
submitLocationLocationFirst(body) ==
    IF \/ ~Truthy(body.location.val)
       \/ TypeOf(body.location.latitude) # "number"
       \/ TypeOf(body.location.longitude) # "number"
    THEN Response(400, FALSE, "invalid location")
    ELSE IF ~Truthy(body.crate_int_id)
         THEN Response(400, FALSE, "missing crate_int_id")
         ELSE Response(200, TRUE, "")

\* mutant: the longitude is not checked
submitLocationNoLongitude(body) ==
    IF ~Truthy(body.crate_int_id)
    THEN Response(400, FALSE, "missing crate_int_id")
    ELSE IF \/ ~Truthy(body.location.val)
            \/ TypeOf(body.location.latitude) # "number"
         THEN Response(400, FALSE, "invalid location")
         ELSE Response(200, TRUE, "")

\* mutant: the metadata is required to be numeric too
submitLocationStrictMetadata(body) ==
    IF ~Truthy(body.crate_int_id)
    THEN Response(400, FALSE, "missing crate_int_id")
    ELSE IF \/ ~Truthy(body.location.val)
            \/ TypeOf(body.location.latitude) # "number"
            \/ TypeOf(body.location.longitude) # "number"
            \/ TypeOf(body.location.accuracy) # "number"
         THEN Response(400, FALSE, "invalid location")
         ELSE Response(200, TRUE, "")

submitLocation(body) ==
    IF ~Truthy(body.crate_int_id)
    THEN Response(400, FALSE, "missing crate_int_id")
    ELSE IF \/ ~Truthy(body.location.val)
            \/ TypeOf(body.location.latitude) # "number"
            \/ TypeOf(body.location.longitude) # "number"
         THEN Response(400, FALSE, "invalid location")
         ELSE Response(200, TRUE, "")

(***************************************************************************)
(* Strings are sequences of one-character strings.                         *)
(***************************************************************************)
Digits == {"0", "1", "2", "3", "4", "5", "6", "7", "8", "9"}
WhiteSpace == {" "}

DigitValue(c) ==
    CASE c = "0" -> 0 [] c = "1" -> 1 [] c = "2" -> 2 [] c = "3" -> 3
      [] c = "4" -> 4 [] c = "5" -> 5 [] c = "6" -> 6 [] c = "7" -> 7
      [] c = "8" -> 8 [] c = "9" -> 9

AllDigits(s) == \A i \in 1..Len(s) : s[i] \in Digits

RECURSIVE DecimalValue(_)
DecimalValue(s) ==
    IF Len(s) = 0 THEN 0
    ELSE 10 * DecimalValue(SubSeq(s, 1, Len(s) - 1)) + DigitValue(s[Len(s)])

RECURSIVE TrimLeft(_)
TrimLeft(s) ==
    IF Len(s) > 0 /\ s[1] \in WhiteSpace THEN TrimLeft(Tail(s)) ELSE s

RECURSIVE TrimRight(_)
TrimRight(s) ==
    IF Len(s) > 0 /\ s[Len(s)] \in WhiteSpace
    THEN TrimRight(SubSeq(s, 1, Len(s) - 1)) ELSE s

\* Number(s) for a string s, on integer literals: white space is trimmed, the
\* empty string is 0, an optionally signed digit string is its value, and
\* anything else is NaN
ToNumber(s) ==
    LET t == TrimRight(TrimLeft(s)) IN
    IF Len(t) = 0 THEN JSNum(0)
    ELSE IF AllDigits(t) THEN JSNum(DecimalValue(t))
    ELSE IF t[1] \in {"-", "+"} /\ Len(t) > 1 /\ AllDigits(Tail(t))
         THEN JSNum(IF t[1] = "-" THEN 0 - DecimalValue(Tail(t))
                    ELSE DecimalValue(Tail(t)))
    ELSE JSNaN

\* /^\d+$/.test(s) for a string s
MatchesDigits(s) == Len(s) > 0 /\ AllDigits(s)

DigitChar(d) ==
    CASE d = 0 -> "0" [] d = 1 -> "1" [] d = 2 -> "2" [] d = 3 -> "3"
      [] d = 4 -> "4" [] d = 5 -> "5" [] d = 6 -> "6" [] d = 7 -> "7"
      [] d = 8 -> "8" [] d = 9 -> "9"

RECURSIVE DecimalString(_)
DecimalString(n) ==
    IF n < 10 THEN <<DigitChar(n)>>
    ELSE Append(DecimalString(n \div 10), DigitChar(n % 10))

\* String(v): the coercion RegExp.prototype.test applies to its argument
StringOf(v) ==
    CASE v.kind = "str" -> v.str
      [] v.kind = "num" -> IF v.num < 0 THEN <<"-">> \o DecimalString(0 - v.num)
                           ELSE DecimalString(v.num)
      [] v.kind = "nan" -> <<"N", "a", "N">>
      [] v.kind = "bool" -> IF v.num = 1 THEN <<"t", "r", "u", "e">>
                            ELSE <<"f", "a", "l", "s", "e">>
      [] v.kind = "null" -> <<"n", "u", "l", "l">>
      [] v.kind = "undefined" -> <<"u", "n", "d", "e", "f", "i", "n", "e", "d">>
      [] v.kind = "obj" -> <<"[", "o", "b", "j", "e", "c", "t", "]">>

\* mutant: the pattern is not anchored (/\d+/)
isValidCrateIdUnanchored(id) ==
    IF ~Truthy(id) THEN FALSE
    ELSE \E i \in 1..Len(StringOf(id)) : StringOf(id)[i] \in Digits

isValidCrateId(id) ==
    IF ~Truthy(id) THEN FALSE
    ELSE MatchesDigits(StringOf(id))

\* a || b
OrElse(a, b) == IF Truthy(a) THEN a ELSE b

\* crateId.current from the three query parameters (null when absent)
crateIdFromQuery(q1, q2, q3) ==
    OrElse(OrElse(OrElse(q1, q2), q3), JSStr(<<>>))

(***************************************************************************)
(* sendLocation.  A call is a record; pc is the await it is suspended at:  *)
(* "fetch" (the POST), "text" (res.text()), "backoff" (the timer), or      *)
(* "returned"; "threw" is an exception leaving the function.  posts,       *)
(* delays and history record what the call did: the fetches issued, the    *)
(* setTimeout delays, the outcome of every settled fetch.                  *)
(***************************************************************************)
DefaultRetries == 3
BackoffBase == 500

Err(k, st, txt) == [kind |-> k, status |-> st, text |-> txt]
NullErr == Err("null", 0, "")
\* the value a rejected fetch throws (TypeError: Failed to fetch)
FetchErr == Err("exception", 0, "")
\* new Error(`HTTP ${res.status} ${text}`)
HttpErr(st, txt) == Err("http", st, txt)

Result(okField, hasSt, st, hasErr, e) ==
    [ok |-> okField, hasStatus |-> hasSt, status |-> st, hasError |-> hasErr,
     error |-> e]
NoResult == Result(FALSE, FALSE, 0, FALSE, NullErr)
\* { ok: true, status: res.status }
SuccessResult(st) == Result(TRUE, TRUE, st, FALSE, NullErr)
\* { ok: false, error: lastErr }
FailureResult(e) == Result(FALSE, FALSE, 0, TRUE, e)

\* what a fetch settles to: a response (status, body text) or a rejection
ResponseOutcome(st, txt) == [kind |-> "response", status |-> st, text |-> txt]
ExceptionOutcome == [kind |-> "exception", status |-> 0, text |-> ""]

\* res.ok as it would be if client errors counted as success
ResOkBelow500(st) == st >= 200 /\ st <= 499

\* res.ok
ResOk(st) == st >= 200 /\ st <= 299

backoff(n) == BackoffBase * 2^n

Return(c, r) == [c EXCEPT !.pc = "returned", !.result = r]

\* mutant: the loop runs while attempt < retries
loopTestStrict(c) ==
    IF c.attempt < c.retries
    THEN [c EXCEPT !.pc = "fetch", !.posts = @ + 1]
    ELSE Return(c, FailureResult(c.lastErr))

\* while (attempt <= retries): the next fetch is issued, or the loop ends and
\* the failure is returned
loopTest(c) ==
    IF c.attempt <= c.retries
    THEN [c EXCEPT !.pc = "fetch", !.posts = @ + 1]
    ELSE Return(c, FailureResult(c.lastErr))

\* mutant: the delay is computed before attempt is incremented
retryWaitBeforeIncrement(c) ==
    [c EXCEPT !.attempt = @ + 1, !.pc = "backoff",
              !.delays = Append(@, backoff(c.attempt))]

\* attempt++; await new Promise((r) => setTimeout(r, backoff(attempt)))
retryWait(c) ==
    [c EXCEPT !.attempt = @ + 1, !.pc = "backoff",
              !.delays = Append(@, backoff(c.attempt + 1))]

\* the call up to its first await
sendLocation(origin, payload, retries) ==
    loopTest([origin |-> origin, payload |-> payload, retries |-> retries,
              attempt |-> 0, lastErr |-> NullErr, pc |-> "loop",
              resStatus |-> 0, resText |-> "", posts |-> 0, delays |-> <<>>,
              history |-> <<>>, textFailed |-> 0, result |-> NoResult,
              duringBackoff |-> FALSE])

\* mutant: the fetch is awaited outside the try block
afterFetchNoCatch(c, o) ==
    LET c1 == [c EXCEPT !.history = Append(@, o)] IN
    IF o.kind = "exception" THEN [c1 EXCEPT !.pc = "threw"]
    ELSE IF ResOk(o.status) THEN Return(c1, SuccessResult(o.status))
    ELSE [c1 EXCEPT !.pc = "text", !.resStatus = o.status, !.resText = o.text]

\* mutant: only status 200 counts as success
afterFetchOnly200(c, o) ==
    LET c1 == [c EXCEPT !.history = Append(@, o)] IN
    IF o.kind = "exception" THEN retryWait([c1 EXCEPT !.lastErr = FetchErr])
    ELSE IF o.status = 200 THEN Return(c1, SuccessResult(o.status))
    ELSE [c1 EXCEPT !.pc = "text", !.resStatus = o.status, !.resText = o.text]

\* mutant: the catch block keeps an error already recorded (lastErr ||= err)
afterFetchKeepFirstErr(c, o) ==
    LET c1 == [c EXCEPT !.history = Append(@, o)] IN
    IF o.kind = "exception"
    THEN retryWait([c1 EXCEPT !.lastErr = IF @.kind = "null" THEN FetchErr ELSE @])
    ELSE IF ResOk(o.status) THEN Return(c1, SuccessResult(o.status))
    ELSE [c1 EXCEPT !.pc = "text", !.resStatus = o.status, !.resText = o.text]

\* the awaited fetch settles: catch (err) { lastErr = err }, or res.ok, or on
\* to reading the error body
afterFetch(c, o) ==
    LET c1 == [c EXCEPT !.history = Append(@, o)] IN
    IF o.kind = "exception" THEN retryWait([c1 EXCEPT !.lastErr = FetchErr])
    ELSE IF ResOk(o.status) THEN Return(c1, SuccessResult(o.status))
    ELSE [c1 EXCEPT !.pc = "text", !.resStatus = o.status, !.resText = o.text]

\* mutant: a 4xx response does not leave the loop
afterTextNoBreak(c, readOk) ==
    LET text == IF readOk THEN c.resText ELSE ""
        c1 == [c EXCEPT !.lastErr = HttpErr(c.resStatus, text),
                        !.textFailed = @ + (IF readOk THEN 0 ELSE 1)]
    IN retryWait(c1)

\* mutant: the loop is left before lastErr is assigned
afterTextBreakFirst(c, readOk) ==
    LET text == IF readOk THEN c.resText ELSE ""
        c1 == [c EXCEPT !.lastErr = HttpErr(c.resStatus, text),
                        !.textFailed = @ + (IF readOk THEN 0 ELSE 1)]
        c0 == [c EXCEPT !.textFailed = @ + (IF readOk THEN 0 ELSE 1)]
    IN IF c.resStatus >= 400 /\ c.resStatus < 500
       THEN Return(c0, FailureResult(c0.lastErr))
       ELSE retryWait(c1)

\* await res.text().catch(() => "") settles: lastErr is the HTTP error; a 4xx
\* breaks out of the loop, anything else goes on to the backoff
afterText(c, readOk) ==
    LET text == IF readOk THEN c.resText ELSE ""
        c1 == [c EXCEPT !.lastErr = HttpErr(c.resStatus, text),
                        !.textFailed = @ + (IF readOk THEN 0 ELSE 1)]
    IN IF c.resStatus >= 400 /\ c.resStatus < 500
       THEN Return(c1, FailureResult(c1.lastErr))
       ELSE retryWait(c1)

\* mutant: the timer's callback never resolves the promise
afterTimerNeverResolves(c) == c

\* the backoff timer fires: back to the loop test
afterTimer(c) == loopTest(c)

(***************************************************************************)
(* Defaults of the variables a specification does not use                  *)
(***************************************************************************)
Probe(arg, done, result) == [arg |-> arg, done |-> done, result |-> result]
NoProbe == Probe(JSNull, FALSE, FALSE)

\* kind: what the request carries; stage: "arrived", "parsed" (req.body set,
\* the route handler is next), "answered"; defined: req.body is not undefined
RawRequest(k, st, def) == [kind |-> k, stage |-> st, defined |-> def]
NoRequest == RawRequest("none", "idle", FALSE)

TestPayload ==
    [crate_int_id |-> JSStr(<<"1", "2">>),
     location |-> LocObject(JSNum(12), JSNum(77), JSNum(5), JSNum(1))]

AppIdle ==
    /\ crateId = JSStr(<<>>)
    /\ hasGeolocation = FALSE
    /\ status = "idle"
    /\ coords = NoCoords
    /\ error = NullErr
    /\ manualMode = FALSE
    /\ page = "hidden"
    /\ geoPending = FALSE
    /\ unload = [registered |-> FALSE, coords |-> NoCoords]
    /\ beacons = <<>>
    /\ clock = 0
    /\ probe = NoProbe

(***************************************************************************)
(* ServerSpec: the handler applied to every request body of RequestBodies  *)
(***************************************************************************)
IdValues ==
    {JSUndefined, JSNull, JSBool(FALSE), JSBool(TRUE), JSNum(0), JSNum(42),
     JSStr(<<>>), JSStr(<<"0">>), JSStr(<<"1", "2">>), JSStr(<<"a">>), JSObj}
CoordValues ==
    {JSUndefined, JSNull, JSBool(TRUE), JSNum(0), JSNum(-7), JSNum(12),
     JSStr(<<"1">>), JSObj}
MetaValues == {JSUndefined, JSNull, JSNum(5)}
LocationValues ==
    {LocPrimitive(v) : v \in {JSUndefined, JSNull, JSBool(FALSE), JSBool(TRUE),
                              JSNum(0), JSNum(5), JSStr(<<>>), JSStr(<<"x">>)}}
    \cup {LocObject(la, lo, m, JSUndefined) :
            la \in CoordValues, lo \in CoordValues, m \in MetaValues}
RequestBodies ==
    {[crate_int_id |-> i, location |-> l] : i \in IdValues, l \in LocationValues}

ServerInit ==
    /\ req \in RequestBodies
    /\ res = NoResponse
    /\ raw = NoRequest
    /\ calls = <<>>
    /\ wire = {}
    /\ serverLog = <<>>
    /\ AppIdle

\* the route handler runs on req and writes the response
ServerHandles ==
    /\ res = NoResponse
    /\ res' = submitLocation(req)
    /\ UNCHANGED <<probe, req, raw, calls, appVars, netVars>>

ServerNext == ServerHandles

ServerSpec == ServerInit /\ [][ServerNext]_vars

(***************************************************************************)
(* ValidSpec: isValidCrateId applied to what getQueryParam can give it (a  *)
(* string of up to MaxIdLen characters of IdAlphabet, or null), to         *)
(* undefined, and to the examples of the specification                     *)
(***************************************************************************)
MaxIdLen == 3

IdAlphabet == {"0", "1", "9", "a", "-", " "}

RECURSIVE StringsUpTo(_)
StringsUpTo(n) ==
    IF n = 0 THEN {<<>>}
    ELSE LET shorter == StringsUpTo(n - 1)
         IN shorter \cup {Append(t, ch) : t \in shorter, ch \in IdAlphabet}

ExampleIds ==
    {<<"1", "2", "3", "4", "5">>, <<"a", "b", "c">>, <<"1", "2", "a">>,
     <<"-", "5">>}

IdInputs ==
    {JSStr(t) : t \in StringsUpTo(MaxIdLen) \cup ExampleIds}
    \cup {JSNull, JSUndefined}

ValidInit ==
    /\ \E id \in IdInputs : probe = Probe(id, FALSE, FALSE)
    /\ req = TestPayload
    /\ res = NoResponse
    /\ raw = NoRequest
    /\ calls = <<>>
    /\ wire = {}
    /\ serverLog = <<>>
    /\ crateId = JSStr(<<>>)
    /\ hasGeolocation = FALSE
    /\ status = "idle"
    /\ coords = NoCoords
    /\ error = NullErr
    /\ manualMode = FALSE
    /\ page = "hidden"
    /\ geoPending = FALSE
    /\ unload = [registered |-> FALSE, coords |-> NoCoords]
    /\ beacons = <<>>
    /\ clock = 0

\* isValidCrateId is called on the argument
Validate ==
    /\ ~probe.done
    /\ probe' = Probe(probe.arg, TRUE, isValidCrateId(probe.arg))
    /\ UNCHANGED <<serverVars, calls, appVars, netVars>>

ValidNext == Validate

ValidSpec == ValidInit /\ [][ValidNext]_vars

(***************************************************************************)
(* HttpSpec: a request passes app.use(express.json()) and then the route.  *)
(* The kinds of request:                                                   *)
(*   "object"     Content-Type application/json, the body a JSON object    *)
(*   "array"      ... the body a JSON array                                *)
(*   "primitive"  ... the body a JSON number, string, boolean or null      *)
(*   "malformed"  ... the body not valid JSON                              *)
(*   "empty"      no body, or a Content-Type express.json() does not parse *)
(***************************************************************************)
RequestKinds == {"object", "array", "primitive", "malformed", "empty"}

\* an array, or {}: every property the handler reads is undefined
EmptyBody == [crate_int_id |-> JSUndefined, location |-> LocPrimitive(JSUndefined)]

HttpInit ==
    /\ \E k \in RequestKinds : raw = RawRequest(k, "arrived", FALSE)
    /\ req \in (IF raw.kind = "object" THEN RequestBodies ELSE {EmptyBody})
    /\ res = NoResponse
    /\ calls = <<>>
    /\ wire = {}
    /\ serverLog = <<>>
    /\ AppIdle

\* express.json() in its default strict mode: an object or array becomes
\* req.body; anything else that is JSON, and malformed JSON, is a 400 error
\* passed to next(err), which the default error handler answers; a request it
\* does not parse goes on with req.body as the Express version leaves it:
\* {} (Express 4) or undefined (Express 5)
jsonMiddleware ==
    /\ raw.stage = "arrived"
    /\ \/ /\ raw.kind \in {"object", "array"}
          /\ raw' = [raw EXCEPT !.stage = "parsed", !.defined = TRUE]
          /\ UNCHANGED res
       \/ /\ raw.kind \in {"primitive", "malformed"}
          /\ raw' = [raw EXCEPT !.stage = "answered"]
          /\ res' = ErrorPage(400)
       \/ /\ raw.kind = "empty"
          /\ \E def \in BOOLEAN :
                raw' = [raw EXCEPT !.stage = "parsed", !.defined = def]
          /\ UNCHANGED res
    /\ UNCHANGED <<probe, req, calls, appVars, netVars>>

\* the route handler: destructuring an undefined req.body throws a TypeError,
\* which Express answers with the default error handler (500)
routeHandler ==
    /\ raw.stage = "parsed"
    /\ raw' = [raw EXCEPT !.stage = "answered"]
    /\ res' = IF raw.defined THEN submitLocation(req) ELSE ErrorPage(500)
    /\ UNCHANGED <<probe, req, calls, appVars, netVars>>

HttpNext == jsonMiddleware \/ routeHandler

HttpSpec == HttpInit /\ [][HttpNext]_vars

(***************************************************************************)
(* SendSpec: one sendLocation call, retries drawn from 0..MaxRetries, the  *)
(* transport answering each fetch with any outcome of MockOutcomes         *)
(***************************************************************************)
MaxRetries == 3

MockStatuses == {200, 204, 399, 400, 404, 499, 500}
MockOutcomes ==
    {ResponseOutcome(st, "body") : st \in MockStatuses} \cup {ExceptionOutcome}

SendInit ==
    /\ \E r \in 0..MaxRetries : calls = <<sendLocation("test", TestPayload, r)>>
    /\ req = TestPayload
    /\ res = NoResponse
    /\ raw = NoRequest
    /\ wire = {}
    /\ serverLog = <<>>
    /\ AppIdle

MockFetchSettles ==
    /\ calls[1].pc = "fetch"
    /\ \E o \in MockOutcomes : calls' = <<afterFetch(calls[1], o)>>
    /\ UNCHANGED <<probe, serverVars, appVars, netVars>>

MockTextSettles ==
    /\ calls[1].pc = "text"
    /\ \E readOk \in BOOLEAN : calls' = <<afterText(calls[1], readOk)>>
    /\ UNCHANGED <<probe, serverVars, appVars, netVars>>

MockTimerFires ==
    /\ calls[1].pc = "backoff"
    /\ calls' = <<afterTimer(calls[1])>>
    /\ UNCHANGED <<probe, serverVars, appVars, netVars>>

SendNext == MockFetchSettles \/ MockTextSettles \/ MockTimerFires

SendSpec == SendInit /\ [][SendNext]_vars

\* every fetch, every body read and every timer eventually completes
SendFairSpec ==
    /\ SendSpec
    /\ WF_vars(MockFetchSettles)
    /\ WF_vars(MockTextSettles)
    /\ WF_vars(MockTimerFires)

(***************************************************************************)
(* Spec: the App component, its sendLocation calls, the network and the    *)
(* server.                                                                 *)
(***************************************************************************)
MaxManual == 1      \* manual submissions that reach sendLocation
\* fetches and body reads the network fails, over all calls (exhausting the
\* retries of one call takes DefaultRetries + 1 of them: SendSpec covers that)
MaxFaults == 1

QueryValues == {JSNull, JSStr(<<>>), JSStr(<<"1", "2">>), JSStr(<<"1", "a">>)}
ManualInputs == {<<>>, <<"7">>, <<"x">>}
GeoPositions == {[latitude |-> 12, longitude |-> 77, accuracy |-> 5]}

\* the messages setError is given, beside String(result.error)
AppMsg(k) == Err(k, 0, "")

Payload(id, p) == [crate_int_id |-> id, location |-> p]

NumManual == Cardinality({i \in DOMAIN calls : calls[i].origin = "manual"})

IsFault(o) == o.kind = "exception" \/ o.status >= 500
RECURSIVE CountFaults(_)
CountFaults(h) ==
    IF Len(h) = 0 THEN 0
    ELSE (IF IsFault(h[1]) THEN 1 ELSE 0) + CountFaults(Tail(h))
RECURSIVE SumFaults(_)
SumFaults(cs) ==
    IF Len(cs) = 0 THEN 0
    ELSE CountFaults(cs[1].history) + cs[1].textFailed + SumFaults(Tail(cs))
NumFaults == SumFaults(calls)

Init ==
    /\ req = TestPayload
    /\ res = NoResponse
    /\ raw = NoRequest
    /\ calls = <<>>
    /\ crateId \in {crateIdFromQuery(a, b, c) :
                        a \in QueryValues, b \in QueryValues, c \in QueryValues}
    /\ hasGeolocation \in BOOLEAN
    /\ status = "idle"
    /\ coords = NoCoords
    /\ error = NullErr
    /\ manualMode = FALSE
    /\ page = "rendered"
    /\ geoPending = FALSE
    /\ unload = [registered |-> FALSE, coords |-> NoCoords]
    /\ beacons = <<>>
    /\ wire = {}
    /\ serverLog = <<>>
    /\ clock = 0
    /\ probe = NoProbe

\* useEffect(() => {...}, []): runs once, after the first render.  The
\* pagehide listener it registers closes over the coords of that render.
Mount ==
    /\ page = "rendered"
    /\ page' = "mounted"
    /\ IF ~Truthy(crateId)
       THEN /\ status' = "missing_crate_id"
            /\ error' = AppMsg("missing_crate_id")
            /\ UNCHANGED <<geoPending, unload>>
       ELSE IF ~isValidCrateId(crateId)
       THEN /\ status' = "invalid_crate_id"
            /\ error' = AppMsg("invalid_crate_id")
            /\ UNCHANGED <<geoPending, unload>>
       ELSE IF ~hasGeolocation
       THEN /\ status' = "no_geolocation"
            /\ error' = AppMsg("no_geolocation")
            /\ UNCHANGED <<geoPending, unload>>
       ELSE /\ status' = "requesting_permission"
            /\ geoPending' = TRUE
            /\ unload' = [registered |-> TRUE, coords |-> coords]
            /\ UNCHANGED error
    /\ UNCHANGED <<probe, serverVars, calls, crateId, hasGeolocation, coords,
                   manualMode, beacons, clock, netVars>>

\* the success callback of getCurrentPosition, up to the await of sendLocation
\* A call of sendLocation made by the component. duringBackoff is a history
\* field the code does not have: it records whether an earlier call was
\* suspended in its setTimeout wait at the moment this call was made.
StartCall(origin, payload) ==
    [sendLocation(origin, payload, DefaultRetries) EXCEPT
        !.duringBackoff = \E k \in DOMAIN calls : calls[k].pc = "backoff"]

GeoSuccess ==
    /\ page = "mounted"
    /\ geoPending
    /\ \E pos \in GeoPositions :
        LET p == LocObject(JSNum(pos.latitude), JSNum(pos.longitude),
                           JSNum(pos.accuracy), JSNum(clock + 1))
            payload == Payload(crateId, p)
        IN /\ coords' = p
           /\ status' = "sending"
           /\ calls' = Append(calls, StartCall("auto", payload))
           /\ wire' = wire \cup {JsonBody(payload)}
    /\ geoPending' = FALSE
    /\ clock' = clock + 1
    /\ UNCHANGED <<probe, serverVars, crateId, hasGeolocation, error, manualMode, page, unload, beacons, serverLog>>

\* the error callback of getCurrentPosition (denied, unavailable, timeout)
GeoError ==
    /\ page = "mounted"
    /\ geoPending
    /\ geoPending' = FALSE
    /\ status' = "permission_denied"
    /\ error' = AppMsg("geolocation_error")
    /\ UNCHANGED <<probe, serverVars, calls, crateId, hasGeolocation, coords,
                   manualMode, page, unload, beacons,
                   clock, netVars>>

\* onClick={() => setManualMode((s) => !s)}
ToggleManual ==
    /\ page = "mounted"
    /\ manualMode' = ~manualMode
    /\ UNCHANGED <<probe, serverVars, calls, crateId, hasGeolocation, status, coords,
                   error, page, geoPending, unload,
                   beacons, clock, netVars>>

\* handleManualSubmit as it would be if a submission had to wait for every
\* earlier call of sendLocation to return
handleManualSubmitExclusive ==
    /\ \A k \in DOMAIN calls : calls[k].pc = "returned"
    /\ page = "mounted"
    /\ manualMode
    /\ \E lat \in ManualInputs, lng \in ManualInputs :
        /\ IF Len(lat) = 0 \/ Len(lng) = 0
           THEN /\ error' = AppMsg("enter_lat_lng")
                /\ UNCHANGED <<calls, status, coords, clock, wire>>
           ELSE /\ NumManual < MaxManual
                /\ LET p == LocObject(ToNumber(lat), ToNumber(lng), JSNull,
                                      JSNum(clock + 1))
                       payload == Payload(crateId, p)
                   IN /\ coords' = p
                      /\ calls' = Append(calls, StartCall("manual", payload))
                      /\ wire' = wire \cup {JsonBody(payload)}
                /\ error' = NullErr
                /\ status' = "sending"
                /\ clock' = clock + 1
    /\ UNCHANGED <<probe, serverVars, crateId, hasGeolocation, manualMode, page,
                   geoPending, unload, beacons, serverLog>>

\* The form is submitted: handleManualSubmit up to the await of sendLocation.
\* manualLat and manualLng are written only by the onChange handlers and the
\* Clear button and read only here, so the contents of the two inputs at the
\* time of the submission are the inputs lat and lng of this action.
handleManualSubmit ==
    /\ page = "mounted"
    /\ manualMode
    /\ \E lat \in ManualInputs, lng \in ManualInputs :
        /\ IF Len(lat) = 0 \/ Len(lng) = 0
           THEN /\ error' = AppMsg("enter_lat_lng")
                /\ UNCHANGED <<calls, status, coords, clock, wire>>
           ELSE /\ NumManual < MaxManual
                /\ LET p == LocObject(ToNumber(lat), ToNumber(lng), JSNull,
                                      JSNum(clock + 1))
                       payload == Payload(crateId, p)
                   IN /\ coords' = p
                      /\ calls' = Append(calls, StartCall("manual", payload))
                      /\ wire' = wire \cup {JsonBody(payload)}
                /\ error' = NullErr
                /\ status' = "sending"
                /\ clock' = clock + 1
    /\ UNCHANGED <<probe, serverVars, crateId, hasGeolocation, manualMode, page,
                   geoPending, unload, beacons, serverLog>>

\* handleUnload, the pagehide listener; the page is gone afterwards (leaving
\* the page, or the Retry button's window.location.reload())
handleUnload ==
    /\ page = "mounted"
    /\ page' = "hidden"
    /\ beacons' =
         IF unload.registered /\ Truthy(unload.coords.val)
         THEN Append(beacons, JsonBody(Payload(crateId, unload.coords)))
         ELSE beacons
    /\ UNCHANGED <<probe, serverVars, calls, crateId, hasGeolocation, status, coords,
                   error, manualMode, geoPending, unload,
                   clock, netVars>>

\* mutant: the test of result.ok is inverted
AfterSendInverted(c) ==
    IF c.pc # "returned" THEN UNCHANGED <<status, error>>
    ELSE IF ~c.result.ok THEN status' = "sent" /\ UNCHANGED error
    ELSE /\ status' = "send_failed"
         /\ error' = IF c.result.error.kind # "null" THEN c.result.error
                     ELSE AppMsg("unknown_error")

\* the statements after `await sendLocation(payload)` in both callers
AfterSend(c) ==
    IF c.pc # "returned" THEN UNCHANGED <<status, error>>
    ELSE IF c.result.ok THEN status' = "sent" /\ UNCHANGED error
    ELSE /\ status' = "send_failed"
         /\ error' = IF c.result.error.kind # "null" THEN c.result.error
                     ELSE AppMsg("unknown_error")

\* what the network makes of a POST: it reaches the server and the answer
\* comes back; it is lost on the way (the fetch rejects); or the server
\* handles it and the answer is lost (the fetch rejects).  The handler writes
\* only 200 and 400, so these are the statuses a fetch can settle with here;
\* SendSpec covers the others.
Deliveries == {"delivered", "request_lost", "response_lost"}

\* the fetch of call i settles
FetchSettles ==
    /\ page = "mounted"
    /\ \E i \in DOMAIN calls, d \in Deliveries :
        LET c == calls[i]
            body == JsonBody(c.payload)
            answer == submitLocation(body)
            o == IF d = "delivered"
                 THEN ResponseOutcome(answer.status, answer.error)
                 ELSE ExceptionOutcome
            c1 == afterFetch(c, o)
        IN /\ c.pc = "fetch"
           /\ d # "delivered" => NumFaults < MaxFaults
           /\ calls' = [calls EXCEPT ![i] = c1]
           /\ serverLog' = IF d \in {"delivered", "response_lost"} /\ answer.status = 200
                           THEN Append(serverLog, body) ELSE serverLog
           /\ AfterSend(c1)
    /\ UNCHANGED <<probe, serverVars, crateId, hasGeolocation, coords, manualMode, page, geoPending, unload, beacons,
                   clock, wire>>

\* res.text() of call i settles
TextSettles ==
    /\ page = "mounted"
    /\ \E i \in DOMAIN calls, readOk \in BOOLEAN :
        LET c1 == afterText(calls[i], readOk)
        IN /\ calls[i].pc = "text"
           /\ ~readOk => NumFaults < MaxFaults
           /\ calls' = [calls EXCEPT ![i] = c1]
           /\ AfterSend(c1)
    /\ UNCHANGED <<probe, serverVars, crateId, hasGeolocation, coords, manualMode, page, geoPending, unload, beacons,
                   clock, netVars>>

\* the backoff timer of call i fires
TimerFires ==
    /\ page = "mounted"
    /\ \E i \in DOMAIN calls :
        LET c1 == afterTimer(calls[i])
        IN /\ calls[i].pc = "backoff"
           /\ calls' = [calls EXCEPT ![i] = c1]
           /\ wire' = IF c1.pc = "fetch" THEN wire \cup {JsonBody(c1.payload)}
                      ELSE wire
           /\ AfterSend(c1)
    /\ UNCHANGED <<probe, serverVars, crateId, hasGeolocation, coords, manualMode, page, geoPending, unload, beacons,
                   clock, serverLog>>

Next ==
    \/ Mount
    \/ GeoSuccess
    \/ GeoError
    \/ ToggleManual
    \/ handleManualSubmit
    \/ handleUnload
    \/ FetchSettles
    \/ TextSettles
    \/ TimerFires

Spec == Init /\ [][Next]_vars

(***************************************************************************)
(* Claims about the client (Spec)                                          *)
(***************************************************************************)
Range(f) == {f[x] : x \in DOMAIN f}

\* the spec's eligibility of a report, read off the JSON body on the wire
Eligible(body) ==
    /\ body.crate_int_id.kind = "str"
    /\ MatchesDigits(body.crate_int_id.str)
    /\ body.location.val.kind = "obj"
    /\ body.location.latitude.kind = "num"
    /\ body.location.longitude.kind = "num"

\* C4: every report the client has transmitted, by fetch or by beacon, has a
\* non-empty all-digit identifier and a numeric latitude and longitude.
C4_TransmittedReportsEligible ==
    \A body \in wire \cup Range(beacons) : Eligible(body)

HasCaptured == Truthy(coords.val)

\* C5: once the page is hidden, exactly one beacon carrying the last captured
\* report has been issued if a position had been captured, and none otherwise.
C5_BeaconOnPagehide ==
    page = "hidden" =>
        beacons = IF HasCaptured THEN <<JsonBody(Payload(crateId, coords))>>
                  ELSE <<>>

(***************************************************************************)
(* Claims about sendLocation (SendSpec)                                    *)
(***************************************************************************)
Is2xx(o) == o.kind = "response" /\ o.status >= 200 /\ o.status <= 299
Is4xx(o) == o.kind = "response" /\ o.status >= 400 /\ o.status <= 499
\* a 5xx response or a transport exception
IsRetriableFailure(o) ==
    o.kind = "exception" \/ (o.kind = "response" /\ o.status >= 500)
AllRetriable(h) == \A j \in 1..Len(h) : IsRetriableFailure(h[j])
Last(h) == h[Len(h)]

\* C1: a call with retries R >= 0 never issues more than R+1 POSTs, and a
\* call that returned after nothing but retriable failures (5xx, exception)
\* issued exactly R+1 POSTs and returned a failure result.
C1_ExactlyRetriesPlusOneAttempts ==
    \A i \in DOMAIN calls :
        LET c == calls[i] IN
        c.retries >= 0 =>
            /\ c.posts <= c.retries + 1
            /\ (c.pc = "returned" /\ AllRetriable(c.history)) =>
                   /\ c.posts = c.retries + 1
                   /\ Len(c.history) = c.retries + 1
                   /\ c.result.ok = FALSE

\* the default bound: four failing attempts, then the failure is returned
C1_Witness ==
    \E i \in DOMAIN calls :
        /\ calls[i].retries = DefaultRetries
        /\ calls[i].pc = "returned"
        /\ AllRetriable(calls[i].history)
        /\ calls[i].posts = 4
        /\ calls[i].result.ok = FALSE

\* C2: a 4xx response is the last outcome of its call: no POST is issued
\* after it, and the call returns failure (it is reading the error body or
\* has returned).
C2_NoRetryAfter4xx ==
    \A i \in DOMAIN calls :
        LET c == calls[i] IN
        \A j \in 1..Len(c.history) :
            Is4xx(c.history[j]) =>
                /\ j = Len(c.history)
                /\ c.posts = j
                /\ c.pc \in {"text", "returned"}
                /\ c.pc = "returned" => c.result.ok = FALSE

\* a 4xx received by a retry (the second attempt or later) ended the call
C2_Witness ==
    \E i \in DOMAIN calls :
        /\ calls[i].pc = "returned"
        /\ Len(calls[i].history) >= 2
        /\ Is4xx(Last(calls[i].history))
        /\ calls[i].posts = Len(calls[i].history)
        /\ calls[i].attempt < calls[i].retries

\* C3: a 2xx response is the last outcome of its call: the call has returned
\* success, having issued exactly as many POSTs as outcomes were received
\* (k retriable failures and the success: k+1).
C3_SuccessAfterKFailures ==
    \A i \in DOMAIN calls :
        LET c == calls[i] IN
        \A j \in 1..Len(c.history) :
            Is2xx(c.history[j]) =>
                /\ j = Len(c.history)
                /\ c.pc = "returned"
                /\ c.result.ok = TRUE
                /\ c.posts = j
                /\ j <= c.retries + 1

\* fails twice, then succeeds: success after exactly 3 attempts
C3_Witness ==
    \E i \in DOMAIN calls :
        LET c == calls[i] IN
        /\ Len(c.history) = 3
        /\ IsRetriableFailure(c.history[1])
        /\ IsRetriableFailure(c.history[2])
        /\ Is2xx(c.history[3])
        /\ c.pc = "returned"
        /\ c.result.ok = TRUE
        /\ c.posts = 3

StoppedBy4xx(c) ==
    c.pc = "returned" /\ Len(c.history) > 0 /\ Is4xx(Last(c.history))

\* C9 as claimed: the failure result of a call stopped by a 4xx has a status
\* field holding that status.
C9_FailureHasStatusField ==
    \A i \in DOMAIN calls :
        StoppedBy4xx(calls[i]) =>
            /\ calls[i].result.hasStatus
            /\ calls[i].result.status = Last(calls[i].history).status

\* C9 amended: the failure result of a call stopped by a 4xx has no status
\* field; it is { ok: false, error } and the error is the HTTP error made
\* from that response's status.
C9_StatusOnlyInError ==
    \A i \in DOMAIN calls :
        StoppedBy4xx(calls[i]) =>
            /\ calls[i].result.ok = FALSE
            /\ calls[i].result.hasStatus = FALSE
            /\ calls[i].result.hasError
            /\ calls[i].result.error.kind = "http"
            /\ calls[i].result.error.status = Last(calls[i].history).status

\* a 404 after a transport exception: the status reported is the 404's
C9_Witness ==
    \E i \in DOMAIN calls :
        /\ StoppedBy4xx(calls[i])
        /\ Len(calls[i].history) = 2
        /\ calls[i].history[1].kind = "exception"
        /\ calls[i].history[2].status = 404
        /\ calls[i].result.error = HttpErr(404, "body")

\* C10: no exception leaves sendLocation: a call is always suspended at one
\* of its awaits or has returned, and a returned call holds a result object
\* that is a success {ok: true, status} or a failure {ok: false, error}.
C10_NeverThrows ==
    \A i \in DOMAIN calls :
        LET c == calls[i] IN
        /\ c.pc \in {"fetch", "text", "backoff", "returned"}
        /\ c.pc = "returned" =>
               \/ c.result.ok = TRUE /\ c.result.hasStatus
               \/ c.result.ok = FALSE /\ c.result.hasError

\* a call that met a transport exception, a 5xx whose body could not be
\* read, and a 4xx, and returned
C10_Witness ==
    \E i \in DOMAIN calls :
        LET c == calls[i] IN
        /\ c.pc = "returned"
        /\ c.textFailed > 0
        /\ \E j \in 1..Len(c.history) : c.history[j].kind = "exception"
        /\ \E j \in 1..Len(c.history) : c.history[j].status >= 500
        /\ Is4xx(Last(c.history))

(***************************************************************************)
(* Claims about the server (ServerSpec)                                    *)
(***************************************************************************)
Handled == res # NoResponse

\* location absent, or latitude or longitude absent or not a number
InvalidLocationShape(l) ==
    \/ l.val.kind # "obj"
    \/ l.latitude.kind # "num"
    \/ l.longitude.kind # "num"

\* C6: a body whose crate_int_id is absent or falsy is answered 400 with
\* the missing-identifier error, whatever its location is, and never 200.
C6_MissingIdentifier400 ==
    (Handled /\ ~Truthy(req.crate_int_id)) =>
        /\ res.status = 400
        /\ res.error = "missing crate_int_id"
        /\ res.ok = FALSE

\* an absent identifier together with an invalid location
C6_Witness ==
    /\ Handled
    /\ req.crate_int_id = JSUndefined
    /\ InvalidLocationShape(req.location)
    /\ res.error = "missing crate_int_id"

\* C7: a body whose location is absent, or whose latitude or longitude is
\* absent or not a number, is answered 400; when its identifier passes the
\* identifier check the error is the invalid-location error.
C7_InvalidLocation400 ==
    (Handled /\ InvalidLocationShape(req.location)) =>
        /\ res.status = 400
        /\ Truthy(req.crate_int_id) => res.error = "invalid location"

\* a numeric latitude with a string longitude
C7_Witness ==
    /\ Handled
    /\ Truthy(req.crate_int_id)
    /\ req.location.val = JSObj
    /\ req.location.latitude.kind = "num"
    /\ req.location.longitude.kind = "str"
    /\ res.error = "invalid location"

WellFormed(body) ==
    /\ body.crate_int_id.kind = "str"
    /\ MatchesDigits(body.crate_int_id.str)
    /\ body.location.val.kind = "obj"
    /\ body.location.latitude.kind = "num"
    /\ body.location.longitude.kind = "num"

\* C8: a well-formed body (digit-string identifier, numeric latitude and
\* longitude, any metadata) is answered 200 {ok: true}.
C8_WellFormed200 ==
    (Handled /\ WellFormed(req)) => (res.status = 200 /\ res.ok = TRUE)

\* identifier "0", coordinates 0 and -7, metadata null
C8_Witness ==
    /\ Handled
    /\ req.crate_int_id = JSStr(<<"0">>)
    /\ req.location.latitude = JSNum(0)
    /\ req.location.longitude = JSNum(-7)
    /\ req.location.accuracy = JSNull
    /\ res.status = 200

(***************************************************************************)
(* Claims about the server's handling of any request (HttpSpec)            *)
(***************************************************************************)
Answered == raw.stage = "answered"

\* C11: every request is answered 200 or a structured 400 whose body is
\* { error: message }; no other status, and no error page of an unhandled
\* fault.
C11_AlwaysStructuredAnswer ==
    Answered =>
        \/ res.status = 200 /\ res.json
        \/ res.status = 400 /\ res.json /\ res.error # ""

(***************************************************************************)
(* Claims about isValidCrateId (ValidSpec)                                 *)
(***************************************************************************)
IsDigitString(v) ==
    /\ v.kind = "str"
    /\ v.str # <<>>
    /\ \A i \in DOMAIN v.str :
          v.str[i] \in {"0", "1", "2", "3", "4", "5", "6", "7", "8", "9"}

\* C12: isValidCrateId(id) is true exactly when id is a non-empty string of
\* decimal digits: "12345" is valid, "abc", "", null, "12a" and "-5" are not.
C12_ValidExactlyDigitStrings ==
    probe.done =>
        /\ probe.result = IsDigitString(probe.arg)
        /\ probe.arg = JSStr(<<"1", "2", "3", "4", "5">>) => probe.result = TRUE
        /\ probe.arg \in {JSStr(<<"a", "b", "c">>), JSStr(<<>>), JSNull,
                          JSStr(<<"1", "2", "a">>), JSStr(<<"-", "5">>)}
               => probe.result = FALSE

\* a string that mixes digits with another character was rejected
C12_Witness ==
    /\ probe.done
    /\ probe.arg = JSStr(<<"1", "2", "a">>)
    /\ probe.result = FALSE

(***************************************************************************)
(* Claims about the waits and the termination of sendLocation              *)
(***************************************************************************)
\* C13: a call that has returned after n POSTs has performed exactly n-1
\* backoff waits: every wait was followed by another POST.
C13_WaitsOnlyBeforeRetry ==
    \A i \in DOMAIN calls :
        LET c == calls[i] IN
        (c.pc = "returned" /\ c.posts >= 1) => Len(c.delays) = c.posts - 1

\* C14: the k-th wait of a call is 500 * 2^k ms (1000, 2000, 4000, ...), each
\* twice the one before, and one wait is made for every retriable failure,
\* a transport exception or a response that is neither 2xx nor 4xx alike.
C14_BackoffDoubles ==
    \A i \in DOMAIN calls :
        LET c == calls[i]
            settled == IF c.pc = "text" THEN Len(c.history) - 1 ELSE Len(c.history)
            failures == {j \in 1..settled :
                            ~Is2xx(c.history[j]) /\ ~Is4xx(c.history[j])}
        IN /\ Len(c.delays) = Cardinality(failures)
           /\ \A k \in 1..Len(c.delays) :
                  /\ c.delays[k] = 1000 * 2^(k - 1)
                  /\ k > 1 => c.delays[k] = 2 * c.delays[k - 1]

\* an exception, then a 500, then an exception: waits of 1000, 2000, 4000 ms
C14_Witness ==
    \E i \in DOMAIN calls :
        LET c == calls[i] IN
        /\ Len(c.history) = 3
        /\ c.history[1].kind = "exception"
        /\ c.history[2].status = 500
        /\ c.history[3].kind = "exception"
        /\ c.delays = <<1000, 2000, 4000>>

\* C15: a failure result of a call with retries >= 0 carries a non-null
\* error, the one of the most recent attempt: the value the last fetch
\* rejected with, or the HTTP error of the last response's status.
C15_FailureCarriesLastError ==
    \A i \in DOMAIN calls :
        LET c == calls[i] IN
        (c.pc = "returned" /\ c.result.ok = FALSE /\ c.retries >= 0) =>
            /\ c.result.hasError
            /\ c.result.error.kind # "null"
            /\ Len(c.history) > 0
            /\ Last(c.history).kind = "exception" => c.result.error = FetchErr
            /\ Last(c.history).kind = "response" =>
                   /\ c.result.error.kind = "http"
                   /\ c.result.error.status = Last(c.history).status

\* a 500 and then a transport exception: the failure carries the exception
C15_Witness ==
    \E i \in DOMAIN calls :
        LET c == calls[i] IN
        /\ c.pc = "returned"
        /\ c.result.ok = FALSE
        /\ c.history = <<ResponseOutcome(500, "body"), ExceptionOutcome>>
        /\ c.result.error = FetchErr

ReturnedOn2xx(c) == c.result.ok /\ Is2xx(Last(c.history))
ReturnedOn4xx(c) == ~c.result.ok /\ Is4xx(Last(c.history))
ReturnedExhausted(c) ==
    /\ ~c.result.ok
    /\ c.attempt > c.retries
    /\ ~Is2xx(Last(c.history))
    /\ ~Is4xx(Last(c.history))

ExactlyOneReason(c) ==
    /\ ReturnedOn2xx(c) \/ ReturnedOn4xx(c) \/ ReturnedExhausted(c)
    /\ ~(ReturnedOn2xx(c) /\ ReturnedOn4xx(c))
    /\ ~(ReturnedOn2xx(c) /\ ReturnedExhausted(c))
    /\ ~(ReturnedOn4xx(c) /\ ReturnedExhausted(c))

\* C16: when every fetch, body read and timer eventually completes, the call
\* eventually returns, and a returned call returned for exactly one reason:
\* a 2xx response, a 4xx response, or the retry bound being exhausted.
C16_EventuallyReturns ==
    /\ <>(\A i \in DOMAIN calls : calls[i].pc = "returned")
    /\ [](\A i \in DOMAIN calls :
             calls[i].pc = "returned" => ExactlyOneReason(calls[i]))

\* a call that returned because its retries were exhausted
C16_Witness ==
    \E i \in DOMAIN calls :
        /\ calls[i].pc = "returned"
        /\ calls[i].retries = DefaultRetries
        /\ ReturnedExhausted(calls[i])

(***************************************************************************)
(* Claims about the client's status (Spec)                                 *)
(***************************************************************************)
SideBranches ==
    {"missing_crate_id", "invalid_crate_id", "no_geolocation", "permission_denied"}

\* the edges of the status flow as the design note draws it
FlowEdges ==
    {<<"idle", "requesting_permission">>, <<"idle", "missing_crate_id">>,
     <<"idle", "invalid_crate_id">>, <<"idle", "no_geolocation">>,
     <<"requesting_permission", "permission_denied">>,
     <<"requesting_permission", "sending">>,
     <<"sending", "sent">>, <<"sending", "send_failed">>}

\* C17 as claimed, for a page opened with a valid crate id: every change of
\* status is an edge of the flow; so sent and send_failed are entered only
\* from sending, and no side branch is followed by sending.
C17_StatusFollowsFlow ==
    [][(isValidCrateId(crateId) /\ status' # status) =>
           <<status, status'>> \in FlowEdges]_vars

\* a call returns in this step, with this value of result.ok
SomeCallReturns(okField) ==
    \E i \in DOMAIN calls :
        /\ calls[i].pc # "returned"
        /\ calls'[i].pc = "returned"
        /\ calls'[i].result.ok = okField

\* C17 amended: idle is left only to requesting_permission, missing_crate_id,
\* invalid_crate_id or no_geolocation, which are entered only from idle, and
\* idle is never entered again; permission_denied is entered only by the
\* geolocation error callback; sending is entered only by a new sendLocation
\* call, from any status but idle; sent is entered only when a call returns
\* success and send_failed only when a call returns failure, from sending,
\* sent, send_failed or permission_denied.
C17_StatusTransitions ==
    [][status' # status =>
        /\ status' # "idle"
        /\ status = "idle" <=>
              status' \in {"requesting_permission", "missing_crate_id",
                           "invalid_crate_id", "no_geolocation"}
        /\ status' = "permission_denied" => (geoPending /\ ~geoPending')
        /\ status' = "sending" => Len(calls') = Len(calls) + 1
        /\ status' = "sent" => SomeCallReturns(TRUE)
        /\ status' = "send_failed" => SomeCallReturns(FALSE)
        /\ status' \in {"sent", "send_failed"} =>
              status \in {"sending", "sent", "send_failed", "permission_denied"}
    ]_vars

\* without geolocation the status went no_geolocation, sending, sent: a
\* manual submission from a side branch
C17_Witness ==
    /\ ~hasGeolocation
    /\ isValidCrateId(crateId)
    /\ status = "sent"


\* a submission of the form that makes a call of sendLocation
ManualCallStarts == handleManualSubmit /\ Len(calls') = Len(calls) + 1

\* the log holds exactly the manual report followed by the automatic report of
\* calls j and i
AcceptedOutOfOrder(i, j) ==
    /\ calls[i].origin = "auto"
    /\ calls[j].origin = "manual"
    /\ calls[i].payload.location.timestamp.num
           < calls[j].payload.location.timestamp.num
    /\ serverLog = <<JsonBody(calls[j].payload), JsonBody(calls[i].payload)>>

\* C18: the calls of sendLocation are not serialised. While the page is
\* mounted and the form is shown, a submission with both fields filled in can
\* start its own call whatever the earlier calls are doing (fetching, reading
\* a body, waiting to retry); so the execution of the witness exists, in which
\* the server accepts the manual report before the automatic report captured
\* earlier.
C18_CallsNotSerialised ==
    (page = "mounted" /\ manualMode /\ NumManual < MaxManual)
        => ENABLED ManualCallStarts

\* the automatic call was made first and was waiting to retry when the manual
\* call was made; the server accepted the manual report, then the automatic
C18_Witness ==
    \E i, j \in DOMAIN calls :
        /\ i < j
        /\ calls[j].duringBackoff
        /\ AcceptedOutOfOrder(i, j)


\* C19: whenever the status is "sent" the error shown is null, whatever the
\* interleaving of the automatic and the manual submissions
C19_SentShowsNoError == status = "sent" => error = NullErr

\* C20: the status is "sent" only if the server has accepted at least one
\* report of this client, and "send_failed" only if some call of sendLocation
\* of this client has returned a failure
C20_StatusHasCause ==
    /\ status = "sent" =>
           \E n \in DOMAIN serverLog, i \in DOMAIN calls :
               serverLog[n] = JsonBody(calls[i].payload)
    /\ status = "send_failed" =>
           \E i \in DOMAIN calls :
               calls[i].pc = "returned" /\ ~calls[i].result.ok

\* "sent" after the first answer was lost: the server accepted the report
\* twice, the client saw one success
C20_Witness ==
    /\ status = "sent"
    /\ Len(serverLog) = 2
    /\ serverLog[1] = serverLog[2]
    /\ Len(calls) = 1

====
